---------------------------- MODULE Spec2Model ----------------------------
(***************************************************************************)
(* A model of find-campsite's search core (src/src/server.ts): the range   *)
(* matcher matchAvailableDateRanges, the itinerary consolidator            *)
(* consolidateItineraries with its key makeAvailabilityKey, the            *)
(* orchestrator search, and the /search handler that runs one search per   *)
(* requested campground under Promise.all.                                 *)
(*                                                                         *)
(* A luxon DateTime of day precision is modelled as an integer day number; *)
(* day 0 is Monday 2024-06-24, so that the modelled days cross the end of  *)
(* June.  a.diff(b).as('days') is a - b, .weekday is the ISO weekday 1..7, *)
(* toLocaleString(DATE_SHORT) is the en-US text M/D/YYYY and toISODate()   *)
(* the text YYYY-MM-DD.  A JavaScript array is a sequence, null is the     *)
(* empty sequence and a present value v is <<v>>.  A plain object used as  *)
(* a string-keyed map is the sequence of its entries in insertion order.   *)
(***************************************************************************)
EXTENDS Integers, Sequences, FiniteSets, TLC

VARIABLES
    pc,               \* position of the modelled call
    availabilities,   \* the DateAndStatus[] handed to matchAvailableDateRanges
    startDayOfWeek,   \* argument startDayOfWeek
    lengthOfStay,     \* argument lengthOfStay
    matchingRanges,   \* the value matchAvailableDateRanges returned
    matches,          \* the {site, matchingRanges}[] handed to consolidateItineraries
    regrouped,        \* the Itinerary[] consolidateItineraries returned
    provider,         \* argument provider of search
    calls,            \* the calls search has made to the provider's API, in order
    campground,       \* how api.getCampground settled
    campsites,        \* number of campsites api.getCampsites resolved with, or null
    mapped,           \* the {site, matchingRanges} records campsites.map has built
    calendarsRegular, \* every calendar getAvailableDates() returned so far was
                      \* contiguous and free of duplicate dates
    searchResult,     \* the Result search returned, or null
    error,            \* the message of the Error search ended in, or "none"
    campgrounds,      \* the campground ids of a /search request, in request order
    searches,         \* the promise of each search the /search handler started
    completed,        \* the searches that settled, in that order, each with
                      \* the number of API calls made until then
    promiseAll,       \* the promise Promise.all returned to the handler
    payload           \* ctx.body of the /search handler, or null

vars == <<pc, availabilities, startDayOfWeek, lengthOfStay, matchingRanges,
          matches, regrouped, provider, calls, campground, campsites, mapped,
          calendarsRegular, searchResult, error, campgrounds, searches,
          completed, promiseAll, payload>>

matcherVars == <<availabilities, matchingRanges>>
searchVars == <<provider, calls, campground, campsites, mapped,
                calendarsRegular, searchResult, error>>
handlerVars == <<campgrounds, searches, completed, promiseAll, payload>>

---------------------------------------------------------------------------
(* Bounds of the checked instances.                                        *)

MaxEntries == 5      \* longest availability array handed to the matcher
MaxDay == 2          \* the matcher's dates are the days 0..MaxDay
MaxStay == 2         \* lengthOfStay ranges over -1..MaxStay
MaxSites == 2        \* most campsites of one campground
MaxRanges == 4       \* most ranges handed to the consolidator in one call
MaxWeek == 1         \* the consolidator's ranges start in the weeks 0..MaxWeek
MaxSiteEntries == 2  \* longest calendar of a campsite in a search
MaxSearchDay == 1    \* a search's dates are the days 0..MaxSearchDay of two weeks
MaxNights == 1       \* lengthOfStay of a search ranges over 0..MaxNights

Days == 0..MaxDay
Stays == -1..MaxStay
\* requested weekdays: Monday, Tuesday, and two values outside 1..7
Weekdays == {0, 1, 2, 8}

---------------------------------------------------------------------------
(* Dates.                                                                  *)

Null == <<>>
Some(v) == <<v>>

Epoch == [year |-> 2024, month |-> 6, day |-> 24]

IsLeapYear(y) == (y % 4 = 0 /\ y % 100 # 0) \/ y % 400 = 0

DaysInMonth(y, m) ==
    CASE m \in {4, 6, 9, 11} -> 30
      [] m = 2 -> IF IsLeapYear(y) THEN 29 ELSE 28
      [] OTHER -> 31

NextDay(ymd) ==
    IF ymd.day < DaysInMonth(ymd.year, ymd.month)
      THEN [ymd EXCEPT !.day = @ + 1]
      ELSE IF ymd.month < 12
        THEN [ymd EXCEPT !.month = @ + 1, !.day = 1]
        ELSE [year |-> ymd.year + 1, month |-> 1, day |-> 1]

RECURSIVE PlusDays(_, _)
PlusDays(ymd, n) == IF n = 0 THEN ymd ELSE PlusDays(NextDay(ymd), n - 1)

\* the calendar date (year, month, day) of day number d
CalendarDate(d) == PlusDays(Epoch, d)

\* DateTime.weekday: 1 is Monday, 7 is Sunday
weekday(d) == (d % 7) + 1

Digit(n) ==
    CASE n = 0 -> "0" [] n = 1 -> "1" [] n = 2 -> "2" [] n = 3 -> "3"
      [] n = 4 -> "4" [] n = 5 -> "5" [] n = 6 -> "6" [] n = 7 -> "7"
      [] n = 8 -> "8" [] n = 9 -> "9"

RECURSIVE Decimal(_)
Decimal(n) == IF n < 10 THEN Digit(n) ELSE Decimal(n \div 10) \o Digit(n % 10)

TwoDigits(n) == IF n < 10 THEN "0" \o Digit(n) ELSE Decimal(n)

\* date.toLocaleString(DateTime.DATE_SHORT)
toLocaleString(d) ==
    LET c == CalendarDate(d)
    IN  Decimal(c.month) \o "/" \o Decimal(c.day) \o "/" \o Decimal(c.year)

\* date.toISODate()
toISODate(d) ==
    LET c == CalendarDate(d)
    IN  Decimal(c.year) \o "-" \o TwoDigits(c.month) \o "-" \o TwoDigits(c.day)

---------------------------------------------------------------------------
(* Array.prototype.sort as Node's V8 runs it on arrays shorter than 64     *)
(* elements: one run is found at the front of the array (reversed when it  *)
(* is strictly descending) and the remaining elements are put in place by  *)
(* binary insertion.  The comparator says which of the program's two       *)
(* comparison functions is used.                                           *)

\* (a, b) => a.date.diff(b.date).as('days')
CompareAvailabilities(a, b) == a.date - b.date

\* (a, b) => a.range.start.diff(b.range.end).as('days')
CompareItineraries(a, b) == a.range.start - b.range.end

Compare(comparator, a, b) ==
    CASE comparator = "availabilities" -> CompareAvailabilities(a, b)
      [] comparator = "itineraries" -> CompareItineraries(a, b)

Reverse(s) == [i \in 1..Len(s) |-> s[Len(s) + 1 - i]]

\* length of the run that starts the array (Len(arr) >= 2)
RunLength(arr, comparator) ==
    LET descending == Compare(comparator, arr[2], arr[1]) < 0
        Continues(i) ==
            IF descending
              THEN Compare(comparator, arr[i], arr[i - 1]) < 0
              ELSE Compare(comparator, arr[i], arr[i - 1]) >= 0
    IN  CHOOSE r \in 2..Len(arr) :
            /\ \A i \in 3..r : Continues(i)
            /\ r = Len(arr) \/ ~Continues(r + 1)

CountAndMakeRun(arr, comparator) ==
    LET r == RunLength(arr, comparator)
    IN  IF Compare(comparator, arr[2], arr[1]) < 0
          THEN Reverse(SubSeq(arr, 1, r)) \o SubSeq(arr, r + 1, Len(arr))
          ELSE arr

\* positions are counted from 0 as in the engine; arr[mid + 1] is its element mid
RECURSIVE BinarySearch(_, _, _, _, _)
BinarySearch(arr, pivot, left, right, comparator) ==
    IF left < right
      THEN LET mid == left + ((right - left) \div 2)
           IN  IF Compare(comparator, pivot, arr[mid + 1]) < 0
                 THEN BinarySearch(arr, pivot, left, mid, comparator)
                 ELSE BinarySearch(arr, pivot, mid + 1, right, comparator)
      ELSE left

RECURSIVE BinaryInsertionSort(_, _, _)
BinaryInsertionSort(arr, start, comparator) ==
    IF start >= Len(arr)
      THEN arr
      ELSE LET pivot == arr[start + 1]
               left == BinarySearch(arr, pivot, 0, start, comparator)
               placed == SubSeq(arr, 1, left) \o <<pivot>>
                         \o SubSeq(arr, left + 1, start)
                         \o SubSeq(arr, start + 2, Len(arr))
           IN  BinaryInsertionSort(placed, start + 1, comparator)

ArraySort(arr, comparator) ==
    IF Len(arr) < 2
      THEN arr
      ELSE BinaryInsertionSort(CountAndMakeRun(arr, comparator),
                               RunLength(arr, comparator), comparator)

---------------------------------------------------------------------------
(* matchAvailableDateRanges.                                               *)

\* sequenceStart, sequenceLength and result before the first element
ScanInit == [sequenceStart |-> Null, sequenceLength |-> 0, result |-> <<>>]

\* ScanStep without the weekday test on a new start
ScanStepAnyWeekday(st, availability, weekdayWanted, nights) ==
    IF st.sequenceStart # Null
      THEN IF st.sequenceLength = nights
             THEN [sequenceStart |-> Null, sequenceLength |-> 0,
                   result |-> Append(st.result,
                                     [start |-> st.sequenceStart[1],
                                      end |-> availability.date])]
             ELSE IF availability.isAvailable /\ st.sequenceLength < nights
               THEN [st EXCEPT !.sequenceLength = @ + 1]
               ELSE [st EXCEPT !.sequenceStart = Null, !.sequenceLength = 0]
      ELSE IF availability.isAvailable
        THEN [st EXCEPT !.sequenceStart = Some(availability.date),
                        !.sequenceLength = @ + 1]
        ELSE st

\* ScanStep counting the start day as night 0 instead of night 1
ScanStepStartAtZero(st, availability, weekdayWanted, nights) ==
    IF st.sequenceStart # Null
      THEN IF st.sequenceLength = nights
             THEN [sequenceStart |-> Null, sequenceLength |-> 0,
                   result |-> Append(st.result,
                                     [start |-> st.sequenceStart[1],
                                      end |-> availability.date])]
             ELSE IF availability.isAvailable /\ st.sequenceLength < nights
               THEN [st EXCEPT !.sequenceLength = @ + 1]
               ELSE [st EXCEPT !.sequenceStart = Null, !.sequenceLength = 0]
      ELSE IF weekday(availability.date) = weekdayWanted /\ availability.isAvailable
        THEN [st EXCEPT !.sequenceStart = Some(availability.date)]
        ELSE st

\* ScanStep closing a range with >= in place of ===
ScanStepAtLeast(st, availability, weekdayWanted, nights) ==
    IF st.sequenceStart # Null
      THEN IF st.sequenceLength >= nights
             THEN [sequenceStart |-> Null, sequenceLength |-> 0,
                   result |-> Append(st.result,
                                     [start |-> st.sequenceStart[1],
                                      end |-> availability.date])]
             ELSE IF availability.isAvailable /\ st.sequenceLength < nights
               THEN [st EXCEPT !.sequenceLength = @ + 1]
               ELSE [st EXCEPT !.sequenceStart = Null, !.sequenceLength = 0]
      ELSE IF weekday(availability.date) = weekdayWanted /\ availability.isAvailable
        THEN [st EXCEPT !.sequenceStart = Some(availability.date),
                        !.sequenceLength = @ + 1]
        ELSE st

\* ScanStep taking the entry that closes a range as a new start as well
ScanStepReusingEnd(st, availability, weekdayWanted, nights) ==
    IF st.sequenceStart # Null
      THEN IF st.sequenceLength = nights
             THEN IF weekday(availability.date) = weekdayWanted
                     /\ availability.isAvailable
                    THEN [sequenceStart |-> Some(availability.date),
                          sequenceLength |-> 1,
                          result |-> Append(st.result,
                                            [start |-> st.sequenceStart[1],
                                             end |-> availability.date])]
                    ELSE [sequenceStart |-> Null, sequenceLength |-> 0,
                          result |-> Append(st.result,
                                            [start |-> st.sequenceStart[1],
                                             end |-> availability.date])]
             ELSE IF availability.isAvailable /\ st.sequenceLength < nights
               THEN [st EXCEPT !.sequenceLength = @ + 1]
               ELSE [st EXCEPT !.sequenceStart = Null, !.sequenceLength = 0]
      ELSE IF weekday(availability.date) = weekdayWanted /\ availability.isAvailable
        THEN [st EXCEPT !.sequenceStart = Some(availability.date),
                        !.sequenceLength = @ + 1]
        ELSE st

\* the callback of sortedAvailabilities.forEach
ScanStep(st, availability, weekdayWanted, nights) ==
    IF st.sequenceStart # Null
      THEN IF st.sequenceLength = nights
             THEN [sequenceStart |-> Null, sequenceLength |-> 0,
                   result |-> Append(st.result,
                                     [start |-> st.sequenceStart[1],
                                      end |-> availability.date])]
             ELSE IF availability.isAvailable /\ st.sequenceLength < nights
               THEN [st EXCEPT !.sequenceLength = @ + 1]
               ELSE [st EXCEPT !.sequenceStart = Null, !.sequenceLength = 0]
      ELSE IF weekday(availability.date) = weekdayWanted /\ availability.isAvailable
        THEN [st EXCEPT !.sequenceStart = Some(availability.date),
                        !.sequenceLength = @ + 1]
        ELSE st

\* the scan's variables after the first k elements of the sorted array
RECURSIVE Scan(_, _, _, _)
Scan(sorted, k, weekdayWanted, nights) ==
    IF k = 0
      THEN ScanInit
      ELSE ScanStep(Scan(sorted, k - 1, weekdayWanted, nights), sorted[k],
                    weekdayWanted, nights)

\* availabilities.sort(...): sorts the caller's array in place
SortedAvailabilities(arr) == ArraySort(arr, "availabilities")

\* MatchResult that also emits a candidate complete at the end of the scan,
\* ending it on the last entry
MatchResultWithTrailing(arr, weekdayWanted, nights) ==
    LET sorted == SortedAvailabilities(arr)
        final == Scan(sorted, Len(sorted), weekdayWanted, nights)
    IN  IF final.sequenceStart # Null /\ final.sequenceLength = nights
          THEN Append(final.result, [start |-> final.sequenceStart[1],
                                     end |-> sorted[Len(sorted)].date])
          ELSE final.result

\* the returned result
MatchResult(arr, weekdayWanted, nights) ==
    LET sorted == SortedAvailabilities(arr)
    IN  Scan(sorted, Len(sorted), weekdayWanted, nights).result

\* a sorted array holds one entry per day, no day missing between the first
\* and the last
ContiguousNoDuplicates(arr) ==
    \A k \in 1..(Len(arr) - 1) : arr[k + 1].date = arr[k].date + 1

---------------------------------------------------------------------------
(* The matcher called on its own.                                          *)

Entries == [date : Days, isAvailable : BOOLEAN]

\* the arrays of n elements in ascending date order, elements of one date
\* in every order
RECURSIVE AscendingFrom(_, _)
AscendingFrom(n, first) ==
    IF n = 0
      THEN {<<>>}
      ELSE UNION {{<<e>> \o rest : rest \in AscendingFrom(n - 1, e.date)} :
                    e \in {x \in Entries : x.date >= first}}

RotateLeft(s) == IF Len(s) < 2 THEN s ELSE Tail(s) \o <<Head(s)>>

\* arrival orders of an ascending array: as is, reversed, rotated
Arrivals(s) == {s, Reverse(s), RotateLeft(s)}

\* the arrays of at most longest elements handed to the matcher
MatcherInputs(longest) ==
    UNION {UNION {Arrivals(s) : s \in AscendingFrom(n, 0)} : n \in 0..longest}

\* the days 0..MaxDay of two consecutive weeks
TwoWeeks == Days \cup {7 + d : d \in Days}

\* the arrays of n elements of strictly ascending dates within two weeks:
\* calendars without duplicate dates, with or without missing days
RECURSIVE StrictlyAscendingFrom(_, _)
StrictlyAscendingFrom(n, first) ==
    IF n = 0
      THEN {<<>>}
      ELSE UNION {{<<e>> \o rest : rest \in StrictlyAscendingFrom(n - 1, e.date + 1)} :
                    e \in {x \in [date : TwoWeeks, isAvailable : BOOLEAN] :
                             x.date >= first}}

\* the duplicate-free arrays of at most longest elements handed to the matcher
CalendarInputs(longest) ==
    UNION {UNION {Arrivals(s) : s \in StrictlyAscendingFrom(n, 0)} : n \in 0..longest}

\* the variables of the /search handler while it is not the operation modelled
HandlerIdle ==
    /\ campgrounds = <<>>
    /\ searches = <<>>
    /\ completed = <<>>
    /\ promiseAll = [state |-> "pending", value |-> <<>>, reason |-> "none"]
    /\ payload = Null

\* the variables of the consolidator while it is not the operation modelled
ConsolidatorIdle == matches = <<>> /\ regrouped = <<>>

\* the variables of search while it is not the operation modelled
SearchIdle ==
    /\ provider = "recreation_gov"
    /\ calls = <<>>
    /\ campground = "unsettled"
    /\ campsites = Null
    /\ mapped = <<>>
    /\ calendarsRegular = TRUE
    /\ searchResult = Null
    /\ error = "none"

MatchInit ==
    /\ pc = "match"
    /\ ConsolidatorIdle
    /\ SearchIdle
    /\ HandlerIdle
    /\ availabilities \in MatcherInputs(MaxEntries) \cup CalendarInputs(MaxEntries)
    /\ startDayOfWeek \in Weekdays
    /\ lengthOfStay \in Stays
    /\ matchingRanges = <<>>

matchAvailableDateRanges ==
    /\ pc = "match"
    /\ availabilities' = SortedAvailabilities(availabilities)
    /\ matchingRanges' = MatchResult(availabilities, startDayOfWeek, lengthOfStay)
    /\ pc' = "matched"
    /\ UNCHANGED <<startDayOfWeek, lengthOfStay, matches, regrouped>>
    /\ UNCHANGED searchVars
    /\ UNCHANGED handlerVars

MatchNext == matchAvailableDateRanges

SpecMatch == MatchInit /\ [][MatchNext]_vars

---------------------------------------------------------------------------
(* consolidateItineraries.                                                 *)

\* a key of start dates only
makeStartKey(availability) == toLocaleString(availability.start)

makeAvailabilityKey(availability) ==
    toLocaleString(availability.start) \o " to " \o toLocaleString(availability.end)

\* GroupRange assigning a fresh group on every occurrence of a key
GroupRangeOverwriting(result, site, availability) ==
    LET key == makeAvailabilityKey(availability)
    IN  IF \E i \in 1..Len(result) : result[i].key = key
          THEN [i \in 1..Len(result) |->
                   IF result[i].key = key
                     THEN [result[i] EXCEPT !.campsites = <<site>>]
                     ELSE result[i]]
          ELSE Append(result, [key |-> key, range |-> availability,
                               campsites |-> <<site>>])

\* the body of the inner forEach: result[key] is created when absent, and
\* the site is pushed on its campsites
GroupRange(result, site, availability) ==
    LET key == makeAvailabilityKey(availability)
    IN  IF \E i \in 1..Len(result) : result[i].key = key
          THEN [i \in 1..Len(result) |->
                   IF result[i].key = key
                     THEN [result[i] EXCEPT !.campsites = Append(@, site)]
                     ELSE result[i]]
          ELSE Append(result, [key |-> key, range |-> availability,
                               campsites |-> <<site>>])

\* match.matchingRanges.forEach over the first j ranges
RECURSIVE GroupRanges(_, _, _, _)
GroupRanges(result, site, ranges, j) ==
    IF j = 0
      THEN result
      ELSE GroupRange(GroupRanges(result, site, ranges, j - 1), site, ranges[j])

\* matches.forEach over the first i matches
RECURSIVE GroupMatches(_, _)
GroupMatches(ms, i) ==
    IF i = 0
      THEN <<>>
      ELSE GroupRanges(GroupMatches(ms, i - 1), ms[i].site,
                       ms[i].matchingRanges, Len(ms[i].matchingRanges))

\* Object.values(result): the values in insertion order of their keys
ObjectValues(result) ==
    [i \in 1..Len(result) |->
        [range |-> result[i].range, campsites |-> result[i].campsites]]

consolidateItineraries(ms) ==
    ArraySort(ObjectValues(GroupMatches(ms, Len(ms))), "itineraries")

---------------------------------------------------------------------------
(* The consolidator called on its own.  A campsite is named by its         *)
(* position in the campground's list.  The ranges of one campsite are in   *)
(* the order the matcher emits them, each starting no earlier than the one *)
(* before it ends; all start on the same weekday.                          *)

Spans == {0, 7, 8}

Ranges == {[start |-> 7 * w, end |-> 7 * w + n] : w \in 0..MaxWeek, n \in Spans}

\* a campsite's ranges are in the order the matcher emits them
InMatcherOrder(ranges) ==
    \A j \in 1..(Len(ranges) - 1) : ranges[j + 1].start >= ranges[j].end

\* number of ranges of the first n campsites
RECURSIVE Total(_, _)
Total(size, n) == IF n = 0 THEN 0 ELSE Total(size, n - 1) + size[n]

\* the matches of n campsites, campsite i holding the next size[i] ranges of flat
Split(flat, size, n) ==
    [i \in 1..n |->
        [site |-> i,
         matchingRanges |-> SubSeq(flat, Total(size, i - 1) + 1, Total(size, i))]]

MatcherIdle ==
    /\ availabilities = <<>>
    /\ startDayOfWeek = 1
    /\ lengthOfStay = 1
    /\ matchingRanges = <<>>

ConsolidateInit ==
    /\ pc = "consolidate"
    /\ MatcherIdle
    /\ SearchIdle
    /\ HandlerIdle
    /\ \E n \in 0..MaxSites : \E size \in [1..n -> 0..MaxRanges] :
          /\ Total(size, n) <= MaxRanges
          /\ \E flat \in [1..Total(size, n) -> Ranges] :
                /\ \A i \in 1..n : InMatcherOrder(Split(flat, size, n)[i].matchingRanges)
                /\ matches = Split(flat, size, n)
    /\ regrouped = <<>>

ConsolidateItineraries ==
    /\ pc = "consolidate"
    /\ regrouped' = consolidateItineraries(matches)
    /\ pc' = "consolidated"
    /\ UNCHANGED <<availabilities, startDayOfWeek, lengthOfStay, matchingRanges,
                   matches>>
    /\ UNCHANGED searchVars
    /\ UNCHANGED handlerVars

ConsolidateNext == ConsolidateItineraries

SpecConsolidate == ConsolidateInit /\ [][ConsolidateNext]_vars

---------------------------------------------------------------------------
(* search.  The provider's API and the campsites are the environment:      *)
(* getCampground resolves with a campground, resolves with null or         *)
(* rejects; getCampsites rejects or resolves with a list of campsites;     *)
(* each campsite's getAvailableDates() returns a calendar.  A campsite is  *)
(* identified by its position in the list.                                 *)

Providers == {"recreation_gov", "reserve_ca"}

\* pickAPI(choice)
pickAPI(choice) == IF choice = "recreation_gov" THEN "RecreationGov" ELSE "ReserveCA"

SearchDays == (0..MaxSearchDay) \cup {7 + d : d \in 0..MaxSearchDay}
\* Monday, and 0, which dayToWeekday gives for a day it does not know
SearchWeekdays == {0, 1}
SearchStays == 0..MaxNights
SearchEntries == [date : SearchDays, isAvailable : BOOLEAN]

\* the calendars of at most longest entries, in any order
Calendars(longest) == UNION {[1..n -> SearchEntries] : n \in 0..longest}

CampgroundName == "campground"

SearchInit ==
    /\ pc = "search"
    /\ provider \in Providers
    /\ startDayOfWeek \in SearchWeekdays
    /\ lengthOfStay \in SearchStays
    /\ availabilities = <<>>
    /\ matchingRanges = <<>>
    /\ ConsolidatorIdle
    /\ HandlerIdle
    /\ calls = <<>>
    /\ campground = "unsettled"
    /\ campsites = Null
    /\ mapped = <<>>
    /\ calendarsRegular = TRUE
    /\ searchResult = Null
    /\ error = "none"

\* search up to its first await: api.getCampground(campgroundId) is called
Search ==
    /\ pc = "search"
    /\ calls' = Append(calls, <<pickAPI(provider), "getCampground">>)
    /\ pc' = "await getCampground"
    /\ UNCHANGED <<startDayOfWeek, lengthOfStay, matches, regrouped, provider,
                   campground, campsites, mapped, calendarsRegular,
                   searchResult, error>>
    /\ UNCHANGED matcherVars
    /\ UNCHANGED handlerVars

\* a null campground taken for a campground: getCampsites is called
CampgroundMissingIgnored ==
    /\ campground' = "none"
    /\ calls' = Append(calls, <<pickAPI(provider), "getCampsites">>)
    /\ pc' = "await getCampsites"
    /\ error' = error

\* getCampground resolved with null: search throws
CampgroundMissing ==
    /\ campground' = "none"
    /\ error' = "No campground with id"
    /\ pc' = "thrown"
    /\ calls' = calls

\* getCampground resolved with a campground: api.getCampsites is called
CampgroundFound ==
    /\ campground' = "found"
    /\ calls' = Append(calls, <<pickAPI(provider), "getCampsites">>)
    /\ pc' = "await getCampsites"
    /\ error' = error

\* getCampground rejected: the await rethrows
CampgroundRejected ==
    /\ campground' = "rejected"
    /\ error' = "getCampground rejected"
    /\ pc' = "thrown"
    /\ calls' = calls

GetCampgroundSettles ==
    /\ pc = "await getCampground"
    /\ \/ CampgroundMissing
       \/ CampgroundFound
       \/ CampgroundRejected
    /\ UNCHANGED <<startDayOfWeek, lengthOfStay, matches, regrouped, provider,
                   campsites, mapped, calendarsRegular, searchResult>>
    /\ UNCHANGED matcherVars
    /\ UNCHANGED handlerVars

\* getCampsites rejected: the await rethrows
CampsitesRejected ==
    /\ error' = "getCampsites rejected"
    /\ pc' = "thrown"
    /\ campsites' = campsites

\* getCampsites resolved with n campsites
CampsitesResolved ==
    \E n \in 0..MaxSites :
        /\ campsites' = Some(n)
        /\ pc' = "map"
        /\ error' = error

GetCampsitesSettles ==
    /\ pc = "await getCampsites"
    /\ \/ CampsitesRejected
       \/ CampsitesResolved
    /\ UNCHANGED <<startDayOfWeek, lengthOfStay, matches, regrouped, provider,
                   calls, campground, mapped, calendarsRegular, searchResult>>
    /\ UNCHANGED matcherVars
    /\ UNCHANGED handlerVars

\* the callback of campsites.map on the next campsite, whose
\* getAvailableDates() returns calendar
MapSite ==
    /\ pc = "map"
    /\ Len(mapped) < campsites[1]
    /\ \E calendar \in Calendars(MaxSiteEntries) :
          /\ mapped' = Append(mapped,
                 [site |-> Len(mapped) + 1,
                  matchingRanges |-> MatchResult(calendar, startDayOfWeek,
                                                 lengthOfStay)])
          /\ calendarsRegular' =
                 (calendarsRegular
                  /\ ContiguousNoDuplicates(SortedAvailabilities(calendar)))
    /\ UNCHANGED <<pc, startDayOfWeek, lengthOfStay, matches, regrouped, provider,
                   calls, campground, campsites, searchResult, error>>
    /\ UNCHANGED matcherVars
    /\ UNCHANGED handlerVars

\* .filter((site) => site.matchingRanges.length > 0)
WithRanges(ms) == SelectSeq(ms, LAMBDA m : Len(m.matchingRanges) > 0)

\* site.getName() and site.getUrl() of the campsite at position site
getName(site) == <<"name", site>>
getUrl(site) == <<"url", site>>

\* a ResultUnit that has its url whatever the provider
UnitWithUrl(site, choice) == [name |-> getName(site), url |-> getUrl(site)]

\* the ResultUnit of a campsite
Unit(site, choice) ==
    IF choice # "reserve_ca"
      THEN [name |-> getName(site), url |-> getUrl(site)]
      ELSE [name |-> getName(site)]

Units(sites, choice) == [i \in 1..Len(sites) |-> Unit(sites[i], choice)]

\* SetProperty adding the units to those already under the key
SetPropertyMerging(results, key, units) ==
    IF \E i \in 1..Len(results) : results[i].key = key
      THEN [i \in 1..Len(results) |->
               IF results[i].key = key
                 THEN [results[i] EXCEPT !.units = @ \o units]
                 ELSE results[i]]
      ELSE Append(results, [key |-> key, units |-> units])

\* results[key] = units
SetProperty(results, key, units) ==
    IF \E i \in 1..Len(results) : results[i].key = key
      THEN [i \in 1..Len(results) |->
               IF results[i].key = key
                 THEN [results[i] EXCEPT !.units = units]
                 ELSE results[i]]
      ELSE Append(results, [key |-> key, units |-> units])

\* regrouped.forEach over the first k itineraries
RECURSIVE ShapeResults(_, _, _)
ShapeResults(itineraries, k, choice) ==
    IF k = 0
      THEN <<>>
      ELSE SetProperty(ShapeResults(itineraries, k - 1, choice),
                       toISODate(itineraries[k].range.start),
                       Units(itineraries[k].campsites, choice))

\* ReturnResult raising an error when no itinerary was found
ReturnResultFailingOnEmpty ==
    /\ pc = "map"
    /\ Len(mapped) = campsites[1]
    /\ matches' = WithRanges(mapped)
    /\ regrouped' = consolidateItineraries(WithRanges(mapped))
    /\ IF consolidateItineraries(WithRanges(mapped)) = <<>>
         THEN /\ searchResult' = searchResult
              /\ error' = "No availability"
              /\ pc' = "thrown"
         ELSE /\ searchResult' =
                     Some([campgroundName |-> CampgroundName,
                           results |-> ShapeResults(
                               consolidateItineraries(WithRanges(mapped)),
                               Len(consolidateItineraries(WithRanges(mapped))),
                               provider)])
              /\ error' = error
              /\ pc' = "returned"
    /\ UNCHANGED <<startDayOfWeek, lengthOfStay, provider, calls, campground,
                   campsites, mapped, calendarsRegular>>
    /\ UNCHANGED matcherVars
    /\ UNCHANGED handlerVars

\* the rest of search once every campsite is mapped
ReturnResult ==
    /\ pc = "map"
    /\ Len(mapped) = campsites[1]
    /\ matches' = WithRanges(mapped)
    /\ regrouped' = consolidateItineraries(WithRanges(mapped))
    /\ searchResult' =
           Some([campgroundName |-> CampgroundName,
                 results |-> ShapeResults(consolidateItineraries(WithRanges(mapped)),
                                          Len(consolidateItineraries(WithRanges(mapped))),
                                          provider)])
    /\ pc' = "returned"
    /\ UNCHANGED <<startDayOfWeek, lengthOfStay, provider, calls, campground,
                   campsites, mapped, calendarsRegular, error>>
    /\ UNCHANGED matcherVars
    /\ UNCHANGED handlerVars

Next ==
    \/ Search
    \/ GetCampgroundSettles
    \/ GetCampsitesSettles
    \/ MapSite
    \/ ReturnResult

Spec == SearchInit /\ [][Next]_vars

---------------------------------------------------------------------------
(* The /search handler.  Every search it starts is an async call: it runs  *)
(* up to its first await when called, and goes on when the promise it      *)
(* awaits settles, in any order with the other searches.  Promise.all      *)
(* fulfils with the values in the order of the promises it was given when  *)
(* all of them are fulfilled, and rejects when the first of them rejects;  *)
(* it has no means to stop the others.  The handler goes on when           *)
(* Promise.all has settled.  A thrown handler sets no ctx.body.            *)

MaxCampgrounds == 2  \* most campground ids of one /search request

CampgroundIds == {"A", "B"}

\* campground.getName() of the campground with this id
getCampgroundName(campgroundId) == <<"name", campgroundId>>

\* the campsites getCampsites resolves with, each given by its calendar
CampsiteLists ==
    {<<>>,
     <<<<[date |-> 0, isAvailable |-> FALSE], [date |-> 1, isAvailable |-> TRUE]>>>>,
     <<<<[date |-> 1, isAvailable |-> TRUE], [date |-> 0, isAvailable |-> TRUE]>>>>}

\* lines 106 to 141 of search for campsites with these calendars
SearchReturn(name, calendars, choice, weekdayWanted, nights) ==
    LET ms == [i \in 1..Len(calendars) |->
                  [site |-> i,
                   matchingRanges |-> MatchResult(calendars[i], weekdayWanted,
                                                  nights)]]
        itineraries == consolidateItineraries(WithRanges(ms))
    IN  [campgroundName |-> name,
         results |-> ShapeResults(itineraries, Len(itineraries), choice)]

HandlerInit ==
    /\ pc = "request"
    /\ provider \in Providers
    /\ startDayOfWeek = 1
    /\ lengthOfStay = 1
    /\ availabilities = <<>>
    /\ matchingRanges = <<>>
    /\ ConsolidatorIdle
    /\ calls = <<>>
    /\ campground = "unsettled"
    /\ campsites = Null
    /\ mapped = <<>>
    /\ calendarsRegular = TRUE
    /\ searchResult = Null
    /\ error = "none"
    /\ \E n \in 1..MaxCampgrounds : campgrounds \in [1..n -> CampgroundIds]
    /\ searches = <<>>
    /\ completed = <<>>
    /\ promiseAll = [state |-> "pending", value |-> <<>>, reason |-> "none"]
    /\ payload = Null

\* the handler up to await Promise.all: campgrounds.map starts one search
\* per id, each running up to its await of api.getCampground
HandleSearchRequest ==
    /\ pc = "request"
    /\ searches' = [i \in 1..Len(campgrounds) |->
                       [pc |-> "await getCampground", result |-> Null,
                        error |-> "none"]]
    /\ calls' = [i \in 1..Len(campgrounds) |->
                    <<pickAPI(provider), "getCampground", campgrounds[i]>>]
    /\ pc' = "await Promise.all"
    /\ UNCHANGED <<startDayOfWeek, lengthOfStay, matches, regrouped, provider,
                   campground, campsites, mapped, calendarsRegular,
                   searchResult, error, campgrounds, completed, promiseAll,
                   payload>>
    /\ UNCHANGED matcherVars

\* the values in the order the promises fulfilled
PromiseAllValuesAsCompleted(ss, done) ==
    [k \in 1..Len(done) |-> ss[done[k].search].result[1]]

\* the value Promise.all fulfils with: the values in the order of the promises
PromiseAllValues(ss, done) == [i \in 1..Len(ss) |-> ss[i].result[1]]

\* SearchRejects leaving Promise.all pending
SearchRejectsUnnoticed(i, message) ==
    /\ searches' = [searches EXCEPT ![i].pc = "thrown", ![i].error = message]
    /\ completed' = Append(completed, [search |-> i, calls |-> Len(calls)])
    /\ promiseAll' = promiseAll

\* search i throws: its promise rejects, and so does Promise.all if pending
SearchRejects(i, message) ==
    /\ searches' = [searches EXCEPT ![i].pc = "thrown", ![i].error = message]
    /\ completed' = Append(completed, [search |-> i, calls |-> Len(calls)])
    /\ promiseAll' =
           IF promiseAll.state = "pending"
             THEN [state |-> "rejected", value |-> <<>>, reason |-> message]
             ELSE promiseAll

\* search i returns: its promise fulfils, and so does Promise.all if this was
\* the last one pending
SearchFulfils(i, result) ==
    /\ searches' = [searches EXCEPT ![i].pc = "returned", ![i].result = Some(result)]
    /\ completed' = Append(completed, [search |-> i, calls |-> Len(calls)])
    /\ promiseAll' =
           IF /\ promiseAll.state = "pending"
              /\ \A j \in 1..Len(searches) : searches'[j].pc = "returned"
             THEN [state |-> "fulfilled",
                   value |-> PromiseAllValues(searches', completed'),
                   reason |-> "none"]
             ELSE promiseAll

\* api.getCampground settles for search i
SearchCampgroundSettles(i) ==
    /\ searches[i].pc = "await getCampground"
    /\ \/ SearchRejects(i, "No campground with id") /\ calls' = calls
       \/ SearchRejects(i, "getCampground rejected") /\ calls' = calls
       \/ /\ searches' = [searches EXCEPT ![i].pc = "await getCampsites"]
          /\ calls' = Append(calls, <<pickAPI(provider), "getCampsites",
                                      campgrounds[i]>>)
          /\ UNCHANGED <<completed, promiseAll>>
    /\ UNCHANGED <<pc, startDayOfWeek, lengthOfStay, matches, regrouped, provider,
                   campground, campsites, mapped, calendarsRegular,
                   searchResult, error, campgrounds, payload>>
    /\ UNCHANGED matcherVars

\* api.getCampsites settles for search i
SearchCampsitesSettles(i) ==
    /\ searches[i].pc = "await getCampsites"
    /\ \/ SearchRejects(i, "getCampsites rejected")
       \/ \E calendars \in CampsiteLists :
             SearchFulfils(i, SearchReturn(getCampgroundName(campgrounds[i]),
                                           calendars, provider, startDayOfWeek,
                                           lengthOfStay))
    /\ UNCHANGED <<pc, startDayOfWeek, lengthOfStay, matches, regrouped, provider,
                   calls, campground, campsites, mapped, calendarsRegular,
                   searchResult, error, campgrounds, payload>>
    /\ UNCHANGED matcherVars

\* the handler after await Promise.all fulfilled: ctx.body = payload
HandlerResponds ==
    /\ pc = "await Promise.all"
    /\ promiseAll.state = "fulfilled"
    /\ payload' = Some([isError |-> FALSE,
                        args |-> [api |-> provider, campgrounds |-> campgrounds,
                                  lengthOfStay |-> lengthOfStay,
                                  startDayOfWeek |-> startDayOfWeek],
                        results |-> promiseAll.value])
    /\ pc' = "responded"
    /\ UNCHANGED <<startDayOfWeek, lengthOfStay, matches, regrouped, campgrounds,
                   searches, completed, promiseAll>>
    /\ UNCHANGED searchVars
    /\ UNCHANGED matcherVars

\* the handler after await Promise.all rejected: the await throws
HandlerThrows ==
    /\ pc = "await Promise.all"
    /\ promiseAll.state = "rejected"
    /\ pc' = "handler thrown"
    /\ UNCHANGED <<startDayOfWeek, lengthOfStay, matches, regrouped>>
    /\ UNCHANGED handlerVars
    /\ UNCHANGED searchVars
    /\ UNCHANGED matcherVars

HandlerNext ==
    \/ HandleSearchRequest
    \/ \E i \in 1..Len(searches) : SearchCampgroundSettles(i)
    \/ \E i \in 1..Len(searches) : SearchCampsitesSettles(i)
    \/ HandlerResponds
    \/ HandlerThrows

SpecHandler == HandlerInit /\ [][HandlerNext]_vars

---------------------------------------------------------------------------
(* Properties of the matcher.  After the call, availabilities is the       *)
(* sorted array the scan ran over.                                         *)

Matched == pc = "matched"

RangeSet == {matchingRanges[i] : i \in 1..Len(matchingRanges)}

\* the input has an entry of day d marked available
AvailableOn(d) ==
    \E k \in 1..Len(availabilities) :
        availabilities[k].date = d /\ availabilities[k].isAvailable

\* the input has an entry of day d
PresentOn(d) == \E k \in 1..Len(availabilities) : availabilities[k].date = d

\* C1: for every permitted input (any order, missing days, duplicate
\* dates) and lengthOfStay >= 1, every emitted range ends exactly
\* lengthOfStay days after its start, and every day in [start, end) is
\* present in the input and marked available.
C1_RangeIsExactStay ==
    (Matched /\ lengthOfStay >= 1) =>
        \A r \in RangeSet :
            /\ r.end = r.start + lengthOfStay
            /\ \A d \in r.start..(r.end - 1) : AvailableOn(d)

\* C2: every returned range starts on the requested weekday, on the date
\* of an input entry marked available.
C2_StartOnRequestedWeekday ==
    Matched =>
        \A r \in RangeSet :
            weekday(r.start) = startDayOfWeek /\ AvailableOn(r.start)

\* a range was returned although the input also holds an available day of
\* another weekday
C2_Witness ==
    /\ Matched
    /\ matchingRanges # <<>>
    /\ \E k \in 1..Len(availabilities) :
           /\ availabilities[k].isAvailable
           /\ weekday(availabilities[k].date) # startDayOfWeek

\* the earliest available day of the requested weekday
EarliestStart ==
    CHOOSE d \in TwoWeeks :
        /\ AvailableOn(d) /\ weekday(d) = startDayOfWeek
        /\ \A e \in TwoWeeks : (AvailableOn(e) /\ weekday(e) = startDayOfWeek) => d <= e

\* contiguous input without duplicates in which the days d .. d+lengthOfStay-1
\* from the earliest start day d are available and day d+lengthOfStay is present
C3_Case ==
    /\ Matched
    /\ lengthOfStay >= 1
    /\ ContiguousNoDuplicates(availabilities)
    /\ \E d \in TwoWeeks : AvailableOn(d) /\ weekday(d) = startDayOfWeek
    /\ \A d \in EarliestStart..(EarliestStart + lengthOfStay - 1) : AvailableOn(d)
    /\ PresentOn(EarliestStart + lengthOfStay)

\* C3: in that case the first returned range is {d, d+lengthOfStay}, and it
\* is the only one when the input is exactly the days d .. d+lengthOfStay.
C3_ExactLengthMatch ==
    C3_Case =>
        LET stay == [start |-> EarliestStart, end |-> EarliestStart + lengthOfStay]
        IN  /\ matchingRanges # <<>>
            /\ matchingRanges[1] = stay
            /\ (/\ Len(availabilities) = lengthOfStay + 1
                /\ availabilities[1].date = EarliestStart)
               => matchingRanges = <<stay>>

\* a two-night stay found in exactly the days d .. d+2
C3_Witness ==
    /\ C3_Case
    /\ lengthOfStay = 2
    /\ Len(availabilities) = 3
    /\ availabilities[1].date = EarliestStart

\* element k of the sorted input ends a candidate before it is complete
Abandons(k) ==
    LET before == Scan(availabilities, k - 1, startDayOfWeek, lengthOfStay)
    IN  /\ before.sequenceStart # Null
        /\ before.sequenceLength # lengthOfStay
        /\ ~(availabilities[k].isAvailable /\ before.sequenceLength < lengthOfStay)

\* the ranges emitted after element k was scanned
EmittedAfter(k) ==
    LET done == Len(Scan(availabilities, k, startDayOfWeek, lengthOfStay).result)
    IN  {matchingRanges[j] : j \in (done + 1)..Len(matchingRanges)}

\* C4: when a candidate is abandoned at an entry of date dk, no range
\* emitted later in the scan starts at a date <= dk, duplicate dates
\* included.
C4_NoStartInsideFailedAttempt ==
    Matched =>
        \A k \in 1..Len(availabilities) :
            Abandons(k) =>
                \A r \in EmittedAfter(k) : r.start > availabilities[k].date

\* C10: the result is empty when the input is empty, when no day is
\* available, when lengthOfStay <= 0, or when the weekday is outside 1..7.
C10_DegenerateInputGivesNoRange ==
    (/\ Matched
     /\ \/ availabilities = <<>>
        \/ \A k \in 1..Len(availabilities) : ~availabilities[k].isAvailable
        \/ lengthOfStay <= 0
        \/ startDayOfWeek \notin 1..7)
    => matchingRanges = <<>>

\* lengthOfStay is 0 and a candidate was opened and followed by another entry
C10_Witness ==
    /\ Matched
    /\ lengthOfStay = 0
    /\ \E k \in 1..(Len(availabilities) - 1) :
           /\ availabilities[k].isAvailable
           /\ weekday(availabilities[k].date) = startDayOfWeek
           /\ Scan(availabilities, k, startDayOfWeek, lengthOfStay).sequenceStart # Null

\* the entries of arr with those at positions i and i+1 exchanged: another
\* arrival order of the same entries
SwapAdjacent(arr, i) ==
    [k \in 1..Len(arr) |->
        IF k = i THEN arr[i + 1] ELSE IF k = i + 1 THEN arr[i] ELSE arr[k]]

\* no two entries of the input have the same date
NoDuplicateDates ==
    \A j, k \in 1..Len(availabilities) :
        availabilities[j].date = availabilities[k].date => j = k

\* C15: the returned ranges are in ascending order and do not overlap: of
\* two consecutive ranges the second starts no earlier than the first
\* ends, and strictly later when the input has no duplicate dates, the
\* entry that ends a range never being taken as a new start.
C15_RangesAscendingDisjoint ==
    Matched =>
        \A j \in 1..(Len(matchingRanges) - 1) :
            /\ matchingRanges[j + 1].start >= matchingRanges[j].start
            /\ matchingRanges[j + 1].start >= matchingRanges[j].end
            /\ NoDuplicateDates =>
                  matchingRanges[j + 1].start > matchingRanges[j].end

\* two ranges were returned for an input without duplicate dates
C15_Witness ==
    /\ Matched
    /\ NoDuplicateDates
    /\ Len(matchingRanges) = 2

\* the scan's variables after the last entry
ScanEnd == Scan(availabilities, Len(availabilities), startDayOfWeek, lengthOfStay)

\* number of entries counted by the candidate still open at the end of the scan
OpenAtEnd == IF ScanEnd.sequenceStart # Null THEN ScanEnd.sequenceLength ELSE 0

\* C16: a candidate still open at the end of the sorted input gives no
\* range, also when it has counted lengthOfStay available entries; every
\* returned range ends on the date of the entry lengthOfStay positions
\* after its start entry, the lengthOfStay+1 entries of one range are
\* disjoint from those of the other ranges and from those of the open
\* candidate, and so ranges * (lengthOfStay+1) <= entries.
C16_NoTrailingMatch ==
    Matched =>
        /\ matchingRanges # <<>> => lengthOfStay >= 1
        /\ Len(matchingRanges) * (lengthOfStay + 1) + OpenAtEnd
              <= Len(availabilities)
        /\ \E first \in [1..Len(matchingRanges) -> 1..Len(availabilities)] :
              \A j \in 1..Len(matchingRanges) :
                  /\ first[j] + lengthOfStay <= Len(availabilities) - OpenAtEnd
                  /\ availabilities[first[j]].date = matchingRanges[j].start
                  /\ availabilities[first[j] + lengthOfStay].date = matchingRanges[j].end
                  /\ j > 1 => first[j] > first[j - 1] + lengthOfStay

\* one range was returned and the scan ended on a candidate that had counted
\* lengthOfStay available entries
C16_Witness ==
    /\ Matched
    /\ Len(matchingRanges) = 1
    /\ ScanEnd.sequenceStart # Null
    /\ ScanEnd.sequenceLength = lengthOfStay

\* C19: matchAvailableDateRanges leaves its input as it was: after the
\* call the array it was handed holds the same entries in the same order.
C19_InputUnchanged == [][availabilities' = availabilities]_vars

\* C11: the result does not depend on the order in which the entries
\* arrive: any other ordering of the same entries, entries of one date and
\* different availability included, gives the same list of ranges.
C11_OrderIndependent ==
    Matched =>
        \A i \in 1..(Len(availabilities) - 1) :
            MatchResult(SwapAdjacent(availabilities, i), startDayOfWeek,
                        lengthOfStay) = matchingRanges

---------------------------------------------------------------------------
(* Properties of the consolidator.                                         *)

Consolidated == pc = "consolidated"

\* the campsites whose matchingRanges hold range r
Contributors(r) ==
    {matches[i].site : i \in {k \in 1..Len(matches) :
        \E j \in 1..Len(matches[k].matchingRanges) : matches[k].matchingRanges[j] = r}}

InputRanges ==
    UNION {{matches[i].matchingRanges[j] : j \in 1..Len(matches[i].matchingRanges)} :
             i \in 1..Len(matches)}

\* position of a campsite in the input
Supplied(site) == CHOOSE i \in 1..Len(matches) : matches[i].site = site

\* C5: one itinerary per distinct {start, end} range of the input; its
\* campsites are exactly the campsites that contributed the range, in the
\* order they were supplied; ranges that differ in start or end are not
\* merged.
C5_GroupedByRange ==
    Consolidated =>
        /\ {regrouped[i].range : i \in 1..Len(regrouped)} = InputRanges
        /\ Len(regrouped) = Cardinality(InputRanges)
        /\ \A i \in 1..Len(regrouped) :
              LET sites == regrouped[i].campsites
              IN  /\ {sites[p] : p \in 1..Len(sites)} = Contributors(regrouped[i].range)
                  /\ \A p, q \in 1..Len(sites) :
                        p < q => Supplied(sites[p]) <= Supplied(sites[q])

\* two campsites share one range and ranges of one start and two ends are
\* kept apart
C5_Witness ==
    /\ Consolidated
    /\ \E i \in 1..Len(regrouped) : Len(regrouped[i].campsites) = 2
                                    /\ regrouped[i].campsites[1] # regrouped[i].campsites[2]
    /\ \E i, j \in 1..Len(regrouped) :
          /\ regrouped[i].range.start = regrouped[j].range.start
          /\ regrouped[i].range.end # regrouped[j].range.end

\* C6: the returned list is in ascending order of range start.
C6_OrderedByStart ==
    Consolidated =>
        \A i, j \in 1..Len(regrouped) :
            i < j => regrouped[i].range.start <= regrouped[j].range.start

\* C7: no campsite appears twice in the campsites of one itinerary.
C7_CampsiteOncePerItinerary ==
    Consolidated =>
        \A i \in 1..Len(regrouped) :
            \A p, q \in 1..Len(regrouped[i].campsites) :
                p # q => regrouped[i].campsites[p] # regrouped[i].campsites[q]

---------------------------------------------------------------------------
(* Properties of search.                                                   *)

Returned == pc = "returned"

Results == searchResult[1].results

\* the campsites, in supply order, with a matching range starting on day d
RECURSIVE SitesStartingOn(_, _)
SitesStartingOn(d, n) ==
    IF n = 0
      THEN <<>>
      ELSE IF \E j \in 1..Len(mapped[n].matchingRanges) :
                 mapped[n].matchingRanges[j].start = d
        THEN Append(SitesStartingOn(d, n - 1), mapped[n].site)
        ELSE SitesStartingOn(d, n - 1)

\* C8: when every calendar is contiguous and free of duplicates, the
\* returned mapping has a key D exactly when some campsite has a matching
\* range starting on D, and the entry under D lists exactly the campsites
\* with a matching range starting on D, each once, in supply order;
\* campsites without matching ranges appear under no key.
C8_ResultShape ==
    (Returned /\ calendarsRegular) =>
        /\ \A i, j \in 1..Len(Results) : Results[i].key = Results[j].key => i = j
        /\ \A i \in 1..Len(Results) :
              \E d \in SearchDays :
                  /\ Results[i].key = toISODate(d)
                  /\ SitesStartingOn(d, Len(mapped)) # <<>>
                  /\ [p \in 1..Len(Results[i].units) |-> Results[i].units[p].name]
                       = [p \in 1..Len(SitesStartingOn(d, Len(mapped))) |->
                             getName(SitesStartingOn(d, Len(mapped))[p])]
        /\ \A d \in SearchDays :
              SitesStartingOn(d, Len(mapped)) # <<>>
                  => \E i \in 1..Len(Results) : Results[i].key = toISODate(d)

\* regular calendars, two keys in the result
C8_Witness ==
    /\ Returned
    /\ calendarsRegular
    /\ Len(Results) = 2

\* C9: when getCampground resolves with no campground, search ends in the
\* not-found error, returns nothing and never calls getCampsites; when
\* getCampground or getCampsites fails, search ends in that error and
\* returns nothing.
C9_FailureIsRaised ==
    /\ campground = "none" =>
          /\ pc = "thrown"
          /\ error = "No campground with id"
          /\ searchResult = Null
          /\ \A i \in 1..Len(calls) : calls[i][2] # "getCampsites"
    /\ campground = "rejected" =>
          /\ pc = "thrown"
          /\ error = "getCampground rejected"
          /\ searchResult = Null
          /\ \A i \in 1..Len(calls) : calls[i][2] # "getCampsites"
    /\ error = "getCampsites rejected" => (pc = "thrown" /\ searchResult = Null)
    /\ pc = "returned" => (campground = "found" /\ error = "none")

\* getCampground resolved with no campground
C9_Witness == pc = "thrown" /\ campground = "none"

\* every campsite is mapped and none has a matching range
NothingMatched ==
    /\ campground = "found"
    /\ campsites # Null
    /\ Len(mapped) = campsites[1]
    /\ \A i \in 1..Len(mapped) : mapped[i].matchingRanges = <<>>

\* C12: when the campground resolves and no campsite has a matching range
\* (a campground without campsites included), search ends in no error and
\* returns the campground's name with an empty results mapping.
C12_NoMatchGivesEmptyResult ==
    NothingMatched =>
        /\ pc \in {"map", "returned"}
        /\ error = "none"
        /\ pc = "map" => ENABLED ReturnResult
        /\ pc = "returned" =>
              searchResult = Some([campgroundName |-> CampgroundName,
                                   results |-> <<>>])

\* search returned for a campground of two campsites, neither with a range
C12_Witness ==
    /\ Returned
    /\ NothingMatched
    /\ campsites = Some(2)

\* C13: every entry of the result carries the name of its campsite; it
\* carries a url, the campsite's, exactly when the provider is not
\* ReserveCA, and so all entries of one result alike.
C13_UnitFields ==
    Returned =>
        \A i \in 1..Len(Results) : \A p \in 1..Len(Results[i].units) :
            LET unit == Results[i].units[p]
            IN  /\ "name" \in DOMAIN unit
                /\ ("url" \in DOMAIN unit) <=> (provider # "reserve_ca")
                /\ DOMAIN unit \subseteq {"name", "url"}
                /\ \E site \in 1..campsites[1] :
                       /\ unit.name = getName(site)
                       /\ ("url" \in DOMAIN unit) => unit.url = getUrl(site)

\* the itineraries of the consolidated list whose range starts on day d
StartingOn(d) == {k \in 1..Len(regrouped) : regrouped[k].range.start = d}

\* the last of them in the consolidated order
LastStartingOn(d) == CHOOSE k \in StartingOn(d) : \A j \in StartingOn(d) : j <= k

CampsiteNames(sites) == [p \in 1..Len(sites) |-> getName(sites[p])]

UnitNames(units) == [p \in 1..Len(units) |-> units[p].name]

\* C14: itineraries of the consolidated list that share their start date
\* map to one key of the result, and the entry under that key holds the
\* campsites of the last of them in the consolidated order and no others:
\* campsites of the earlier itineraries only are not under the key.
C14_LastItineraryWins ==
    Returned =>
        /\ \A i, j \in 1..Len(Results) : Results[i].key = Results[j].key => i = j
        /\ \A k \in 1..Len(regrouped) :
              \E i \in 1..Len(Results) :
                  /\ Results[i].key = toISODate(regrouped[k].range.start)
                  /\ UnitNames(Results[i].units) =
                        CampsiteNames(
                          regrouped[LastStartingOn(regrouped[k].range.start)].campsites)

\* two itineraries of one start date, two end dates and different campsites:
\* the campsite of the earlier one is in no entry of the result
C14_Witness ==
    /\ Returned
    /\ \E j, k \in 1..Len(regrouped) :
          /\ j < k
          /\ regrouped[j].range.start = regrouped[k].range.start
          /\ regrouped[j].range.end # regrouped[k].range.end
          /\ \E p \in 1..Len(regrouped[j].campsites) :
                \A i \in 1..Len(Results) : \A q \in 1..Len(Results[i].units) :
                    Results[i].units[q].name # getName(regrouped[j].campsites[p])

\* a ReserveCA search returned an entry of two campsites
C13_Witness ==
    /\ Returned
    /\ provider = "reserve_ca"
    /\ \E i \in 1..Len(Results) : Len(Results[i].units) = 2

---------------------------------------------------------------------------
(* Properties of the /search handler.                                      *)

SomeSearchRejected == \E i \in 1..Len(searches) : searches[i].pc = "thrown"

\* C17: once one of the searches of a request has rejected, no other search
\* of the request makes a call to the provider's API (getCampground or
\* getCampsites).
C17_RejectionAbortsSiblings == [][SomeSearchRejected => calls' = calls]_vars

\* C17 as amended: once a search has rejected, Promise.all is rejected and
\* ctx.body is never set, but the other searches are not stopped: one that
\* still awaits getCampground calls getCampsites when its campground
\* resolves, and no other call to the provider's API is made.
C17_RejectionFailsBatchOnly ==
    [][SomeSearchRejected =>
         /\ promiseAll.state = "rejected"
         /\ payload = Null
         /\ payload' = Null
         /\ \/ calls' = calls
            \/ \E i \in 1..Len(searches) :
                  /\ searches[i].pc = "await getCampground"
                  /\ calls' = Append(calls, <<pickAPI(provider), "getCampsites",
                                              campgrounds[i]>>)]_vars

\* a call to the provider's API was made after a search had rejected
C17_Witness ==
    \E k \in 1..Len(completed) :
        /\ searches[completed[k].search].pc = "thrown"
        /\ Len(calls) > completed[k].calls

\* C18: whatever the order in which the searches complete, ctx.body is set
\* only when every search has returned; its results then hold one entry
\* per requested campground id, the i-th being what the search for the
\* i-th id returned; when a search has failed, ctx.body is not set.
C18_PayloadInRequestOrder ==
    /\ payload # Null =>
          /\ \A i \in 1..Len(searches) : searches[i].pc = "returned"
          /\ Len(payload[1].results) = Len(campgrounds)
          /\ \A i \in 1..Len(campgrounds) :
                /\ payload[1].results[i] = searches[i].result[1]
                /\ payload[1].results[i].campgroundName
                      = getCampgroundName(campgrounds[i])
    /\ SomeSearchRejected => payload = Null

\* ctx.body was set after the second search returned before the first, the
\* two with different results
C18_Witness ==
    /\ payload # Null
    /\ Len(completed) = 2
    /\ completed[1].search = 2
    /\ completed[2].search = 1
    /\ searches[1].result[1].results # searches[2].result[1].results

===========================================================================
